---------------------------- MODULE Spec2Model ----------------------------
(***************************************************************************)
(* CorBas backend: the /analyze request handler and the rule-based         *)
(* fallback semantic tagger, as implemented by the two entry points        *)
(* src/app.py and src/corbas_backend_NOCACHE.py.                           *)
(*                                                                         *)
(* Two specifications:                                                     *)
(*   Spec          one server process (either entry point, with PyMUSAS    *)
(*                 loaded or not) serving /analyze requests one at a time; *)
(*   SpecClassify  the pure function get_semantic_fallback of both entry   *)
(*                 points applied to every lemma of the vocabularies.      *)
(***************************************************************************)
EXTENDS Integers, Sequences, FiniteSets, TLC

\* Longest token sequence the pipeline returns in the model.
MaxTokens == 2

VARIABLES
    variant,        \* which entry point is the running module: "app" | "nocache"
    HAS_PYMUSAS,    \* module-level flag set while loading PyMUSAS
    pc,             \* position of analyze_text: "idle" | "nlp" | "loop"
    data,           \* request.get_json() of the request being served
    doc,            \* nlp(text): the sequence of raw tokens
    idx,            \* number of tokens of doc the for loop has consumed
    tokens,         \* the local list of annotations built so far
    response,       \* the last response returned by analyze_text
    nlp_called,     \* history: nlp(text) was invoked for the current request
    fallback_calls, \* history: 1-based positions of doc for which
                    \* get_semantic_fallback was called in the current request
    cl_token,       \* SpecClassify: the token handed to get_semantic_fallback
    cl_result       \* SpecClassify: what each entry point's classifier returned

vars == <<variant, HAS_PYMUSAS, pc, data, doc, idx, tokens, response,
          nlp_called, fallback_calls, cl_token, cl_result>>

handler_vars == <<variant, HAS_PYMUSAS, pc, data, doc, idx, tokens, response,
                  nlp_called, fallback_calls>>

classify_vars == <<cl_token, cl_result>>

-----------------------------------------------------------------------------
(* str.lower() on the lemmas the model feeds in: the cased spellings map   *)
(* to their lower-case form, every other lemma of the model is already     *)
(* lower-case.                                                             *)
CasedLemmas == {"Happy", "LOVE", "Wonderful", "Depressed", "Today", "I", "Xyzzy"}

str_lower(s) ==
    CASE s = "Happy"     -> "happy"
      [] s = "LOVE"      -> "love"
      [] s = "Wonderful" -> "wonderful"
      [] s = "Depressed" -> "depressed"
      [] s = "Today"     -> "today"
      [] s = "I"         -> "i"
      [] s = "Xyzzy"     -> "xyzzy"
      [] OTHER           -> s

-----------------------------------------------------------------------------
(* Vocabulary of app.py                                                    *)
emotion_positive == {"happy", "joy", "delighted", "pleased", "excited", "love", "wonderful"}
emotion_negative == {"sad", "angry", "fear", "hate", "anxious", "worried", "upset", "depressed"}
movement_verbs == {"go", "come", "move", "walk", "run", "travel", "arrive", "leave", "enter"}
speech_verbs == {"say", "tell", "speak", "talk", "communicate", "discuss", "mention", "ask"}
thought_verbs == {"think", "believe", "know", "understand", "consider", "realize", "remember"}
positive_adj == {"good", "great", "excellent", "wonderful", "amazing", "beautiful", "perfect", "nice"}
negative_adj == {"bad", "poor", "terrible", "awful", "horrible", "ugly", "wrong", "worse"}
time_words == {"today", "tomorrow", "yesterday", "now", "then", "soon", "later", "before", "after"}

(* Vocabulary of corbas_backend_NOCACHE.py                                 *)
emotion_pos == {"happy", "joy", "delighted", "pleased", "excited", "love", "wonderful"}
emotion_neg == {"sad", "angry", "fear", "hate", "anxious", "worried", "upset"}
movement == {"go", "come", "move", "walk", "run", "travel", "arrive", "leave"}
speech == {"say", "tell", "speak", "talk", "communicate", "discuss", "ask"}
thought == {"think", "believe", "know", "understand", "consider", "realize"}


-----------------------------------------------------------------------------
(* Coarse part-of-speech codes of the external pipeline (Universal POS).   *)
PosTags == {"ADJ", "ADP", "ADV", "AUX", "CCONJ", "DET", "INTJ", "NOUN", "NUM",
            "PART", "PRON", "PROPN", "PUNCT", "SCONJ", "SYM", "VERB", "X", "SPACE"}

(* get_semantic_fallback of app.py, without the lower-casing of the lemma. *)
get_semantic_fallback_app_no_lower(token) ==
    LET pos == token.pos_
        lemma == token.lemma_
    IN  IF lemma \in emotion_positive THEN "E1.1+"
        ELSE IF lemma \in emotion_negative THEN "E1.1-"
        ELSE IF lemma \in movement_verbs THEN "M1"
        ELSE IF lemma \in speech_verbs THEN "Q2.2"
        ELSE IF lemma \in thought_verbs THEN "X2.1"
        ELSE IF lemma \in positive_adj THEN "A5.1+"
        ELSE IF lemma \in negative_adj THEN "A5.1-"
        ELSE IF lemma \in time_words THEN "T1"
        ELSE IF pos = "NOUN" THEN "O2"
        ELSE IF pos = "PROPN" THEN "Z3"
        ELSE IF pos = "VERB" THEN "A3+"
        ELSE IF pos = "ADJ" THEN "A5"
        ELSE IF pos = "ADV" THEN "A13"
        ELSE IF pos = "NUM" THEN "N1"
        ELSE IF pos = "ADP" THEN "Z5"
        ELSE IF pos = "DET" THEN "Z5"
        ELSE IF pos = "PRON" THEN "Z8"
        ELSE "Z99"

(* get_semantic_fallback of app.py *)
get_semantic_fallback_app(token) ==
    LET pos == token.pos_
        lemma == str_lower(token.lemma_)
    IN  IF lemma \in emotion_positive THEN "E1.1+"
        ELSE IF lemma \in emotion_negative THEN "E1.1-"
        ELSE IF lemma \in movement_verbs THEN "M1"
        ELSE IF lemma \in speech_verbs THEN "Q2.2"
        ELSE IF lemma \in thought_verbs THEN "X2.1"
        ELSE IF lemma \in positive_adj THEN "A5.1+"
        ELSE IF lemma \in negative_adj THEN "A5.1-"
        ELSE IF lemma \in time_words THEN "T1"
        ELSE IF pos = "NOUN" THEN "O2"
        ELSE IF pos = "PROPN" THEN "Z3"
        ELSE IF pos = "VERB" THEN "A3+"
        ELSE IF pos = "ADJ" THEN "A5"
        ELSE IF pos = "ADV" THEN "A13"
        ELSE IF pos = "NUM" THEN "N1"
        ELSE IF pos = "ADP" THEN "Z5"
        ELSE IF pos = "DET" THEN "Z5"
        ELSE IF pos = "PRON" THEN "Z8"
        ELSE "Z99"

(* get_semantic_fallback of corbas_backend_NOCACHE.py with the test        *)
(* pos in ['ADP', 'DET'] narrowed to 'ADP'.                                *)
get_semantic_fallback_nocache_adp_only(token) ==
    LET pos == token.pos_
        lemma == str_lower(token.lemma_)
    IN  IF lemma \in emotion_pos THEN "E1.1+"
        ELSE IF lemma \in emotion_neg THEN "E1.1-"
        ELSE IF lemma \in movement THEN "M1"
        ELSE IF lemma \in speech THEN "Q2.2"
        ELSE IF lemma \in thought THEN "X2.1"
        ELSE IF pos = "NOUN" THEN "O2"
        ELSE IF pos = "PROPN" THEN "Z3"
        ELSE IF pos = "VERB" THEN "A3+"
        ELSE IF pos = "ADJ" THEN "A5"
        ELSE IF pos = "ADV" THEN "A13"
        ELSE IF pos = "NUM" THEN "N1"
        ELSE IF pos \in {"ADP"} THEN "Z5"
        ELSE IF pos = "PRON" THEN "Z8"
        ELSE "Z99"

(* get_semantic_fallback of corbas_backend_NOCACHE.py *)
get_semantic_fallback_nocache(token) ==
    LET pos == token.pos_
        lemma == str_lower(token.lemma_)
    IN  IF lemma \in emotion_pos THEN "E1.1+"
        ELSE IF lemma \in emotion_neg THEN "E1.1-"
        ELSE IF lemma \in movement THEN "M1"
        ELSE IF lemma \in speech THEN "Q2.2"
        ELSE IF lemma \in thought THEN "X2.1"
        ELSE IF pos = "NOUN" THEN "O2"
        ELSE IF pos = "PROPN" THEN "Z3"
        ELSE IF pos = "VERB" THEN "A3+"
        ELSE IF pos = "ADJ" THEN "A5"
        ELSE IF pos = "ADV" THEN "A13"
        ELSE IF pos = "NUM" THEN "N1"
        ELSE IF pos \in {"ADP", "DET"} THEN "Z5"
        ELSE IF pos = "PRON" THEN "Z8"
        ELSE "Z99"

(* The get_semantic_fallback that the running module v resolves to.        *)
get_semantic_fallback(v, token) ==
    IF v = "app" THEN get_semantic_fallback_app(token)
    ELSE get_semantic_fallback_nocache(token)

-----------------------------------------------------------------------------
(* SpecClassify: get_semantic_fallback as a pure function.  The inputs are *)
(* every lemma of either vocabulary, lemmas of no vocabulary and cased     *)
(* spellings, combined with every part-of-speech code.                     *)
AppVocabulary ==
    emotion_positive \cup emotion_negative \cup movement_verbs \cup speech_verbs
        \cup thought_verbs \cup positive_adj \cup negative_adj \cup time_words

NocacheVocabulary ==
    emotion_pos \cup emotion_neg \cup movement \cup speech \cup thought

UnlistedLemmas == {"xyzzy", "cat", "i", "the", "."}

Lemmas == AppVocabulary \cup NocacheVocabulary \cup UnlistedLemmas \cup CasedLemmas

ClassifyInputs == [lemma_ : Lemmas, pos_ : PosTags]

NotClassified == [app |-> "", nocache |-> ""]

InitClassify ==
    /\ variant = "app"
    /\ HAS_PYMUSAS = FALSE
    /\ pc = "idle"
    /\ data = [kind |-> "none"]
    /\ doc = <<>>
    /\ idx = 0
    /\ tokens = <<>>
    /\ response = [status |-> 0, body |-> [pending |-> TRUE]]
    /\ nlp_called = FALSE
    /\ fallback_calls = {}
    /\ cl_token \in ClassifyInputs
    /\ cl_result = NotClassified

(* One call of get_semantic_fallback(token) in each entry point.           *)
Classify ==
    /\ cl_result = NotClassified
    /\ cl_result' = [app     |-> get_semantic_fallback_app(cl_token),
                     nocache |-> get_semantic_fallback_nocache(cl_token)]
    /\ UNCHANGED <<cl_token, handler_vars>>

(* The next call, with another token.                                      *)
NextToken ==
    /\ cl_result # NotClassified
    /\ cl_token' \in ClassifyInputs
    /\ cl_result' = NotClassified
    /\ UNCHANGED handler_vars

NextClassify == Classify \/ NextToken

SpecClassify == InitClassify /\ [][NextClassify]_vars

-----------------------------------------------------------------------------
(* The external pipeline's raw tokens.  A raw token is a record of the     *)
(* attributes the handler reads; a token the tagger annotated also has the *)
(* attribute pymusas_tags (hasattr(token._, 'pymusas_tags')).  A token     *)
(* that lacks one of the attributes the handler reads makes the read       *)
(* raise AttributeError.                                                   *)
RequiredFields == {"text", "pos_", "tag_", "dep_", "head_i", "lemma_", "is_stop", "is_punct"}

TokenForms ==
    { [text |-> "I", pos_ |-> "PRON", tag_ |-> "PRP", dep_ |-> "nsubj",
       lemma_ |-> "I", is_stop |-> TRUE, is_punct |-> FALSE],
      [text |-> "love", pos_ |-> "VERB", tag_ |-> "VBP", dep_ |-> "ROOT",
       lemma_ |-> "love", is_stop |-> FALSE, is_punct |-> FALSE],
      [text |-> "cats", pos_ |-> "NOUN", tag_ |-> "NNS", dep_ |-> "dobj",
       lemma_ |-> "cat", is_stop |-> FALSE, is_punct |-> FALSE],
      [text |-> "!", pos_ |-> "PUNCT", tag_ |-> ".", dep_ |-> "punct",
       lemma_ |-> "!", is_stop |-> FALSE, is_punct |-> TRUE] }

(* A token with no lemma_ attribute.                                       *)
MalformedForms ==
    { [text |-> "cats", pos_ |-> "NOUN", tag_ |-> "NNS", dep_ |-> "dobj",
       is_stop |-> FALSE, is_punct |-> FALSE] }

(* What the tagger left on a token: ordered lists of semantic-domain codes *)
(* (None is falsy like the empty list).                                    *)
TagLists == { <<>>, <<"M1", "Z5">> }

(* The raw tokens of a document of n tokens: head_i is the index (from 0)  *)
(* of the governor, token.head.i.                                          *)
RawTokens(n) ==
    LET untagged == { f @@ [head_i |-> h] : f \in TokenForms \cup MalformedForms, h \in 0..(n - 1) }
    IN  untagged \cup { t @@ [pymusas_tags |-> tg] : t \in untagged, tg \in TagLists }

Docs == UNION { [1..n -> RawTokens(n)] : n \in 0..MaxTokens }

hasattr_pymusas_tags(token) == "pymusas_tags" \in DOMAIN token

Malformed(token) == ~(RequiredFields \subseteq DOMAIN token)

-----------------------------------------------------------------------------
(* Request bodies.  A JSON object is a function from its keys; the value   *)
(* of "text" is a JSON string, number or array.                            *)
TextValues == { [type |-> "str", s |-> ""], [type |-> "str", s |-> "I love cats!"],
                [type |-> "int"], [type |-> "list"] }

JsonObject(hasText, t, hasCorpus) ==
    [k \in (IF hasText THEN {"text"} ELSE {}) \cup (IF hasCorpus THEN {"corpus_name"} ELSE {})
        |-> IF k = "text" THEN t ELSE "c1"]

JsonObjects ==
    { JsonObject(FALSE, [type |-> "int"], c) : c \in BOOLEAN }
        \cup { JsonObject(TRUE, t, c) : t \in TextValues, c \in BOOLEAN }

(* kind "none": no JSON body; "list": the JSON array ["text"];             *)
(* "dict": a JSON object.                                                  *)
Requests ==
    { [kind |-> "none"], [kind |-> "list"] } \cup { [kind |-> "dict", d |-> o] : o \in JsonObjects }

(* dict.get(key, default) *)
dict_get(d, key, default) == IF key \in DOMAIN d THEN d[key] ELSE default

-----------------------------------------------------------------------------
(* Responses: (jsonify(body), status).                                     *)
Pending == [status |-> 0, body |-> [pending |-> TRUE]]

no_text_response == [status |-> 400, body |-> [error |-> "No text provided"]]

(* An except clause that answers with the annotations built before the     *)
(* exception instead of the error.                                         *)
except_response_partial(partial) ==
    [status |-> 200, body |-> [tokens |-> partial, num_tokens |-> Len(partial)]]

(* except Exception as e: return jsonify({"error": str(e)}), 500           *)
(* partial is the local list tokens at the time of the exception, which    *)
(* the clause does not read.                                               *)
except_response(partial) == [status |-> 500, body |-> [error |-> "exception"]]

success_response(toks, corpus_name, has) ==
    [status |-> 200,
     body |-> [tokens |-> toks, num_tokens |-> Len(toks),
               corpus_name |-> corpus_name, has_pymusas |-> has]]

-----------------------------------------------------------------------------
(* The semantic code of one token: the if/else at the top of the loop.     *)

(* ... with '' in place of the sentinel 'Z99'. *)
primary_semantic_empty_sentinel(has, v, token) ==
    IF has /\ hasattr_pymusas_tags(token)
    THEN IF token.pymusas_tags # <<>> THEN token.pymusas_tags[1] ELSE ""
    ELSE get_semantic_fallback(v, token)

(* ... classifying lexically when the tag list is empty. *)
primary_semantic_fallback_on_silence(has, v, token) ==
    IF has /\ hasattr_pymusas_tags(token) /\ token.pymusas_tags # <<>>
    THEN token.pymusas_tags[1]
    ELSE get_semantic_fallback(v, token)

(* ... without the test of HAS_PYMUSAS. *)
primary_semantic_ignoring_flag(has, v, token) ==
    IF hasattr_pymusas_tags(token)
    THEN IF token.pymusas_tags # <<>> THEN token.pymusas_tags[1] ELSE "Z99"
    ELSE get_semantic_fallback(v, token)

(* ... taking the last tag of the list instead of the first. *)
primary_semantic_last_tag(has, v, token) ==
    IF has /\ hasattr_pymusas_tags(token)
    THEN IF token.pymusas_tags # <<>> THEN token.pymusas_tags[Len(token.pymusas_tags)] ELSE "Z99"
    ELSE get_semantic_fallback(v, token)

primary_semantic(has, v, token) ==
    IF has /\ hasattr_pymusas_tags(token)
    THEN IF token.pymusas_tags # <<>> THEN token.pymusas_tags[1] ELSE "Z99"
    ELSE get_semantic_fallback(v, token)

(* Whether the loop body calls get_semantic_fallback for this token.       *)
calls_fallback(has, token) == ~(has /\ hasattr_pymusas_tags(token))

(* The dict appended to tokens. *)
annotation(token, semantic) ==
    [word |-> token.text, pos |-> token.pos_, tag |-> token.tag_,
     semantic |-> semantic, dep |-> token.dep_, head |-> token.head_i,
     lemma |-> token.lemma_, is_stop |-> token.is_stop, is_punct |-> token.is_punct]

(* list.insert(0, x) in place of list.append(x) *)
list_prepend(list, x) == <<x>> \o list

(* list.append(x) *)
list_append(list, x) == Append(list, x)

-----------------------------------------------------------------------------
(* analyze_text, from request.get_json() to the call of nlp: the ways the  *)
(* first lines of the try block can end for request r in module v.         *)
(*   "no_text"  the test  not data or 'text' not in data  returns 400      *)
(*   "raise"    an exception reaches the except clause                     *)
(*   "proceed"  the handler goes on to nlp(text)                           *)
validate(v, r) ==
    CASE r.kind = "none" ->
           \* get_json() returns None, or raises for a body that is no JSON
           {"no_text", "raise"}
      [] r.kind = "list" ->
           \* ["text"]: 'text' in data, then data['text'] raises TypeError
           {"raise"}
      [] r.kind = "dict" ->
           IF DOMAIN r.d = {} \/ "text" \notin DOMAIN r.d THEN {"no_text"}
           ELSE IF v = "app" /\ r.d["text"].type = "int"
                THEN {"raise"}      \* len(text) in the print of app.py
                ELSE {"proceed"}

(* nlp(text): the documents the pipeline can return for a string.          *)
nlp(text) == IF text.s = "" THEN { <<>> } ELSE Docs

-----------------------------------------------------------------------------
Init ==
    /\ variant \in {"app", "nocache"}
    /\ HAS_PYMUSAS \in BOOLEAN
    /\ pc = "idle"
    /\ data = [kind |-> "none"]
    /\ doc = <<>>
    /\ idx = 0
    /\ tokens = <<>>
    /\ response = Pending
    /\ nlp_called = FALSE
    /\ fallback_calls = {}
    /\ cl_token = [lemma_ |-> "xyzzy", pos_ |-> "X"]
    /\ cl_result = NotClassified

(* A request arrives and analyze_text runs up to the call of nlp.          *)
Validate ==
    /\ pc = "idle"
    /\ \E r \in Requests : \E outcome \in validate(variant, r) :
         /\ data' = r
         /\ response' = CASE outcome = "no_text" -> no_text_response
                          [] outcome = "raise"   -> except_response(<<>>)
                          [] OTHER               -> Pending
         /\ pc' = IF outcome = "proceed" THEN "nlp" ELSE "idle"
    /\ doc' = <<>>
    /\ idx' = 0
    /\ tokens' = <<>>
    /\ nlp_called' = FALSE
    /\ fallback_calls' = {}
    /\ UNCHANGED <<variant, HAS_PYMUSAS, classify_vars>>

(* doc = nlp(text); tokens = []                                             *)
CallNlp ==
    /\ pc = "nlp"
    /\ nlp_called' = TRUE
    /\ LET text == data.d["text"] IN
         IF text.type # "str"
         THEN \* the pipeline raises on a text that is no string
              /\ response' = except_response(<<>>)
              /\ pc' = "idle"
              /\ UNCHANGED doc
         ELSE /\ doc' \in nlp(text)
              /\ pc' = "loop"
              /\ UNCHANGED response
    /\ UNCHANGED <<variant, HAS_PYMUSAS, data, idx, tokens, fallback_calls, classify_vars>>

(* One iteration of  for token in doc.                                     *)
LoopBody ==
    /\ pc = "loop"
    /\ idx < Len(doc)
    /\ LET token == doc[idx + 1] IN
         /\ fallback_calls' = IF calls_fallback(HAS_PYMUSAS, token)
                              THEN fallback_calls \cup {idx + 1}
                              ELSE fallback_calls
         /\ IF Malformed(token)
            THEN \* AttributeError, caught by the except clause
                 /\ response' = except_response(tokens)
                 /\ pc' = "idle"
                 /\ UNCHANGED <<idx, tokens>>
            ELSE /\ tokens' = list_append(tokens,
                                 annotation(token, primary_semantic(HAS_PYMUSAS, variant, token)))
                 /\ idx' = idx + 1
                 /\ UNCHANGED <<pc, response>>
    /\ UNCHANGED <<variant, HAS_PYMUSAS, data, doc, nlp_called, classify_vars>>

(* The loop is exhausted: return jsonify({...}).                           *)
Return ==
    /\ pc = "loop"
    /\ idx = Len(doc)
    /\ response' = success_response(tokens, dict_get(data.d, "corpus_name", "unnamed"), HAS_PYMUSAS)
    /\ pc' = "idle"
    /\ UNCHANGED <<variant, HAS_PYMUSAS, data, doc, idx, tokens, nlp_called,
                   fallback_calls, classify_vars>>

Next == Validate \/ CallNlp \/ LoopBody \/ Return

Spec == Init /\ [][Next]_vars

-----------------------------------------------------------------------------
(* Vocabulary of the properties.                                           *)

(* analyze_text has returned the success response of the current request. *)
Succeeded == pc = "idle" /\ response.status = 200 /\ "tokens" \in DOMAIN response.body

Anns == response.body.tokens

(* Positions present both in the response and in the document. *)
Positions == 1..(IF Len(Anns) < Len(doc) THEN Len(Anns) ELSE Len(doc))

Vocabulary(v) == IF v = "app" THEN AppVocabulary ELSE NocacheVocabulary

NoLexicalMatch(v, token) == str_lower(token.lemma_) \notin Vocabulary(v)

NoExternalTag(token) == ~hasattr_pymusas_tags(token) \/ token.pymusas_tags = <<>>

HasExternalTag(token) == hasattr_pymusas_tags(token) /\ token.pymusas_tags # <<>>

(* The part-of-speech defaults as the specification tabulates them. *)
DocumentedDefault(pos) ==
    CASE pos = "NOUN"  -> "O2"
      [] pos = "PROPN" -> "Z3"
      [] pos = "VERB"  -> "A3+"
      [] pos = "ADJ"   -> "A5"
      [] pos = "ADV"   -> "A13"
      [] pos = "NUM"   -> "N1"
      [] pos = "ADP"   -> "Z5"
      [] pos = "DET"   -> "Z5"
      [] pos = "PRON"  -> "Z8"
      [] OTHER         -> "Z99"

-----------------------------------------------------------------------------
(* C1 as claimed: in every successful response every annotation has a      *)
(* non-empty semantic code, and the code is Z99 whenever no lexical rule   *)
(* matches the token and the token has no external tag.                    *)
C1_Z99WhenUnmatchedAndUntagged ==
    Succeeded =>
        \A i \in Positions :
            /\ Anns[i].semantic # ""
            /\ (NoLexicalMatch(variant, doc[i]) /\ NoExternalTag(doc[i]))
                   => Anns[i].semantic = "Z99"

(* C1 amended: in every successful response every annotation has a        *)
(* non-empty semantic code; when no lexical rule matches and the token has *)
(* no external tag, the code is Z99 if the tagger is active and the token  *)
(* carries an (empty) tag list, and otherwise the part-of-speech default,  *)
(* which is Z99 only for a part of speech outside the nine with a default. *)
C1_SemanticNeverEmpty ==
    Succeeded =>
        \A i \in Positions :
            /\ Anns[i].semantic # ""
            /\ (NoLexicalMatch(variant, doc[i]) /\ NoExternalTag(doc[i]))
                   => Anns[i].semantic =
                          IF HAS_PYMUSAS /\ hasattr_pymusas_tags(doc[i])
                          THEN "Z99"
                          ELSE DocumentedDefault(doc[i].pos_)

(* A successful response holding an untagged, unmatched token that got the *)
(* sentinel and a tagged token.                                            *)
C1_Witness ==
    /\ Succeeded
    /\ Len(doc) = MaxTokens
    /\ \E i \in Positions :
         /\ NoLexicalMatch(variant, doc[i])
         /\ NoExternalTag(doc[i])
         /\ doc[i].pos_ = "PUNCT"
         /\ Anns[i].semantic = "Z99"
    /\ \E i \in Positions :
         /\ HasExternalTag(doc[i])
         /\ Anns[i].semantic # ""

(* C3 as claimed: with the tagger active, a token whose tag list is empty  *)
(* or absent gets Z99 and get_semantic_fallback is not called for it.      *)
C3_SilentTaggerGivesZ99 ==
    (Succeeded /\ HAS_PYMUSAS) =>
        \A i \in Positions :
            NoExternalTag(doc[i]) => (Anns[i].semantic = "Z99" /\ i \notin fallback_calls)

(* C3 amended: with the tagger active, a token that carries an empty tag   *)
(* list gets Z99 and get_semantic_fallback is not called for it; a token   *)
(* that does not carry the tag attribute at all is classified by           *)
(* get_semantic_fallback.                                                  *)
C3_EmptyTagListGivesZ99 ==
    (Succeeded /\ HAS_PYMUSAS) =>
        \A i \in Positions :
            /\ (hasattr_pymusas_tags(doc[i]) /\ doc[i].pymusas_tags = <<>>)
                   => (Anns[i].semantic = "Z99" /\ i \notin fallback_calls)
            /\ ~hasattr_pymusas_tags(doc[i])
                   => (Anns[i].semantic = get_semantic_fallback(variant, doc[i])
                       /\ i \in fallback_calls)

(* Tagger active, a token with an empty tag list that the classifier would *)
(* have given another code, and a token without the attribute.             *)
C3_Witness ==
    /\ Succeeded
    /\ HAS_PYMUSAS
    /\ \E i \in Positions :
         /\ hasattr_pymusas_tags(doc[i])
         /\ doc[i].pymusas_tags = <<>>
         /\ get_semantic_fallback(variant, doc[i]) # "Z99"
         /\ Anns[i].semantic = "Z99"
    /\ \E i \in Positions :
         /\ ~hasattr_pymusas_tags(doc[i])
         /\ Anns[i].semantic # "Z99"

(* C5: with the tagger not active, every annotation's semantic is what     *)
(* get_semantic_fallback returns for its token, whether or not the token   *)
(* carries a tag list.                                                     *)
C5_InactiveTaggerUsesFallback ==
    (Succeeded /\ ~HAS_PYMUSAS) =>
        /\ Len(Anns) = Len(doc)
        /\ \A i \in Positions :
             /\ Anns[i].semantic = get_semantic_fallback(variant, doc[i])
             /\ i \in fallback_calls

(* Tagger not active and a token carrying tags whose first differs from    *)
(* the annotation's code.                                                  *)
C5_Witness ==
    /\ Succeeded
    /\ ~HAS_PYMUSAS
    /\ \E i \in Positions :
         /\ HasExternalTag(doc[i])
         /\ doc[i].pymusas_tags[1] # Anns[i].semantic

(* C6: with the tagger active, a token with a non-empty tag list gets the  *)
(* first tag of the list, and get_semantic_fallback is not called for it.  *)
C6_FirstExternalTag ==
    (Succeeded /\ HAS_PYMUSAS) =>
        \A i \in Positions :
            HasExternalTag(doc[i])
                => (Anns[i].semantic = doc[i].pymusas_tags[1] /\ i \notin fallback_calls)

(* Tagger active and a tagged token whose first tag is not what the        *)
(* classifier returns for it.                                              *)
C6_Witness ==
    /\ Succeeded
    /\ HAS_PYMUSAS
    /\ \E i \in Positions :
         /\ HasExternalTag(doc[i])
         /\ Len(doc[i].pymusas_tags) > 1
         /\ Anns[i].semantic = doc[i].pymusas_tags[1]
         /\ get_semantic_fallback(variant, doc[i]) # doc[i].pymusas_tags[1]

(* C7: a successful response holds as many annotations as the document has *)
(* tokens, num_tokens is that number, annotation i copies token i, and     *)
(* head is the token's governor index.                                     *)
C7_OrderAndHeadPreserved ==
    Succeeded =>
        /\ Len(Anns) = Len(doc)
        /\ response.body.num_tokens = Len(doc)
        /\ \A i \in Positions :
             /\ Anns[i].word = doc[i].text
             /\ Anns[i].pos = doc[i].pos_
             /\ Anns[i].tag = doc[i].tag_
             /\ Anns[i].dep = doc[i].dep_
             /\ Anns[i].head = doc[i].head_i
             /\ Anns[i].lemma = doc[i].lemma_
             /\ Anns[i].is_stop = doc[i].is_stop
             /\ Anns[i].is_punct = doc[i].is_punct

(* A successful response for a document of several different tokens, one   *)
(* of them governed by a later token.                                      *)
C7_Witness ==
    /\ Succeeded
    /\ Len(doc) = MaxTokens
    /\ response.body.num_tokens = MaxTokens
    /\ doc[1].text # doc[2].text
    /\ doc[1].head_i = 1
    /\ Anns[1].head = 1

(* C8: when a token of the document lacks a required attribute, the        *)
(* request ends in the error response, which holds no token annotations;   *)
(* no response ever holds annotations of such a document.                  *)
C8_MalformedTokenFailsRequest ==
    (\E i \in 1..Len(doc) : Malformed(doc[i])) =>
        /\ "tokens" \notin DOMAIN response.body
        /\ pc = "idle" => (response.status = 500 /\ DOMAIN response.body = {"error"})

(* The request failed at a malformed token after earlier tokens had been   *)
(* annotated.                                                              *)
C8_Witness ==
    /\ pc = "idle"
    /\ response.status = 500
    /\ Len(tokens) >= 1
    /\ Len(doc) > Len(tokens)
    /\ Malformed(doc[Len(tokens) + 1])

(* C9 as claimed: the pipeline is invoked only for a request whose text is *)
(* a non-empty string, and a request without text is answered with an      *)
(* error before the pipeline is invoked.                                   *)
C9_PipelineOnlyForNonEmptyText ==
    /\ nlp_called =>
         /\ data.kind = "dict"
         /\ "text" \in DOMAIN data.d
         /\ data.d["text"].type = "str"
         /\ data.d["text"].s # ""
    /\ (pc = "idle" /\ response # Pending
        /\ (data.kind # "dict" \/ "text" \notin DOMAIN data.d))
         => (~nlp_called /\ response.status \in {400, 500}
             /\ "tokens" \notin DOMAIN response.body)

-----------------------------------------------------------------------------
(* Properties of get_semantic_fallback, under SpecClassify.                *)

Classified == cl_result # NotClassified

AppSets == <<emotion_positive, emotion_negative, movement_verbs, speech_verbs,
             thought_verbs, positive_adj, negative_adj, time_words>>

NocacheSets == <<emotion_pos, emotion_neg, movement, speech, thought>>

(* The vocabulary sets of a classifier that hold the lemma. *)
SetsHolding(sets, lemma) == { k \in DOMAIN sets : lemma \in sets[k] }

(* C2: no lemma a classifier is applied to belongs, once lower-cased, to   *)
(* two of that classifier's vocabulary sets.                               *)
C2_VocabularyDisjoint ==
    Classified =>
        LET lemma == str_lower(cl_token.lemma_)
        IN  /\ Cardinality(SetsHolding(AppSets, lemma)) <= 1
            /\ Cardinality(SetsHolding(NocacheSets, lemma)) <= 1

(* C4: for a lemma that, lower-cased, is in none of a classifier's         *)
(* vocabulary sets, that classifier returns the documented default of the  *)
(* token's part of speech.                                                 *)
C4_PosDefault ==
    Classified =>
        LET lemma == str_lower(cl_token.lemma_)
        IN  /\ lemma \notin AppVocabulary
                 => cl_result.app = DocumentedDefault(cl_token.pos_)
            /\ lemma \notin NocacheVocabulary
                 => cl_result.nocache = DocumentedDefault(cl_token.pos_)

(* Both classifiers returned Z5 for an unlisted, cased lemma tagged DET.   *)
C4_Witness ==
    /\ Classified
    /\ cl_token = [lemma_ |-> "Xyzzy", pos_ |-> "DET"]
    /\ cl_result = [app |-> "Z5", nocache |-> "Z5"]

(* The lemmas that only app.py's emotion, movement, speech and thought     *)
(* sets list.                                                              *)
AppOnlyVerbsAndEmotions == {"depressed", "enter", "mention", "remember"}

(* C10 as claimed: for a lemma in none of positive_adj, negative_adj and   *)
(* time_words, the two classifiers return the same code.                   *)
C10_SameOutsideAdjAndTime ==
    Classified =>
        (str_lower(cl_token.lemma_) \notin positive_adj \cup negative_adj \cup time_words
            => cl_result.app = cl_result.nocache)

(* C10 amended: for a lemma in none of positive_adj, negative_adj and      *)
(* time_words that is also none of depressed, enter, mention and remember  *)
(* (which app.py alone lists in its emotion_negative, movement_verbs,      *)
(* speech_verbs and thought_verbs sets), the two classifiers return the    *)
(* same code.                                                              *)
C10_SameOutsideAppOnlyLemmas ==
    Classified =>
        (str_lower(cl_token.lemma_) \notin
                positive_adj \cup negative_adj \cup time_words \cup AppOnlyVerbsAndEmotions
            => cl_result.app = cl_result.nocache)

(* Both classifiers matched the same lexical rule for a cased lemma whose  *)
(* part-of-speech default is another code.                                 *)
C10_Witness ==
    /\ Classified
    /\ cl_token = [lemma_ |-> "Happy", pos_ |-> "ADJ"]
    /\ cl_result = [app |-> "E1.1+", nocache |-> "E1.1+"]

=============================================================================
